---- MODULE Spec2Model ----
(***************************************************************************)
(* Model of the lfs-auto-grader Manager: the poll loop (Manager.Start),    *)
(* the per-task run (Manager.run), the line callback                       *)
(* (Manager.processMessage), the failure report (Manager.failSoln) and the *)
(* lfs1 report adapter (CalculateScore), with the queue client, the        *)
(* protocol codec and the Docker executor as their environment.            *)
(* Spec is the Manager with a reachable queue, SpecQueue the Manager with  *)
(* a queue whose calls can fail; SpecBuild applies buildExecuteConfig and  *)
(* SpecScore applies CalculateScore to their inputs.                       *)
(***************************************************************************)
EXTENDS Integers, Sequences, FiniteSets, TLC

(***************************************************************************)
(* Bounds                                                                  *)
(***************************************************************************)
\* number of lines a sandbox prints during one run
MaxLines == 2

(***************************************************************************)
(* aoiclient status values                                                 *)
(***************************************************************************)
StatusAccepted == "Accepted"
StatusWrongAnswer == "Wrong Answer"
StatusTimeLimitExceeded == "Time Limit Exceeded"
StatusMemoryLimitExceeded == "Memory Limit Exceeded"
StatusRuntimeError == "Runtime Error"
StatusCompileError == "Compile Error"
StatusError == "Error"
StatusInternalError == "Internal Error"
\* the literal status of the first patch of Manager.run
StatusRunning == "Running"

\* the statuses the README documents as available
EnumeratedStatuses ==
    { StatusAccepted, StatusWrongAnswer, StatusTimeLimitExceeded,
      StatusMemoryLimitExceeded, StatusRuntimeError, StatusCompileError,
      StatusError }

(***************************************************************************)
(* judgerproto: the line protocol                                          *)
(***************************************************************************)
ActionGreet == "g"
ActionNoop == "n"
ActionLog == "l"
ActionError == "e"
ActionPatch == "p"
ActionDetail == "d"
ActionComplete == "c"
ActionQuit == "q"

RecognizedActions ==
    { ActionGreet, ActionNoop, ActionLog, ActionError, ActionPatch,
      ActionDetail, ActionComplete, ActionQuit }

\* A body is what the "b" field of a line holds.  shape is the JSON shape:
\* "absent", "string", "info" (an object with score/status/message),
\* "details" (an object with version/summary/jobs) or "number".
Body(shape, score, status, text) ==
    [shape |-> shape, score |-> score, status |-> status, text |-> text]

NoBody == Body("absent", 0, "", "")
StringBody(s) == Body("string", 0, "", s)
InfoBody(score, status, text) == Body("info", score, status, text)
DetailsBody(summary) == Body("details", 0, "", summary)
NumberBody == Body("number", 0, "", "")

\* A line of sandbox output: json says whether the line is a JSON envelope.
Line(json, a, b) == [json |-> json, a |-> a, b |-> b]

\* the bodies of the Patch lines a sandbox sends
PatchBodies ==
    { InfoBody(85, StatusAccepted, "accepted"),
      InfoBody(60, "Partially Correct", "custom status") }

\* the lines a sandbox prints
SandboxLines ==
    { Line(FALSE, "", NoBody),                    \* stdout chatter
      Line(TRUE, "x", NoBody),                     \* unknown action
      Line(TRUE, ActionGreet, NoBody),
      Line(TRUE, ActionNoop, NoBody),
      Line(TRUE, ActionQuit, NoBody),
      Line(TRUE, ActionLog, StringBody("hello")),
      Line(TRUE, ActionError, StringBody("boom")),
      Line(TRUE, ActionError, NumberBody),
      Line(TRUE, ActionPatch, StringBody("oops")),
      Line(TRUE, ActionDetail, DetailsBody("sandbox details")),
      Line(TRUE, ActionDetail, NumberBody),
      Line(TRUE, ActionComplete, NoBody),
      Line(TRUE, ActionComplete, NumberBody) }
    \cup { Line(TRUE, ActionPatch, b) : b \in PatchBodies }

\* The body shape the protocol table gives each action.
BodyMatches(a, b) ==
    CASE a = ActionPatch -> b.shape = "info"
      [] a = ActionDetail -> b.shape = "details"
      [] a = ActionComplete -> b.shape = "absent"
      [] a \in {ActionError, ActionLog} -> b.shape = "string"
      [] OTHER -> TRUE

\* judgerproto.MessageFromString: decodes a line or fails.
MessageFromString(msg) ==
    IF msg.json /\ msg.a \in RecognizedActions /\ BodyMatches(msg.a, msg.b)
    THEN [err |-> FALSE, Action |-> msg.a, Body |-> msg.b]
    ELSE [err |-> TRUE, Action |-> "", Body |-> NoBody]

\* json.Unmarshal(parsed.Body, &body) == nil for a string body (LogBody,
\* ErrorBody)
UnmarshalString(b) == b.shape = "string"

\* json.Unmarshal(parsed.Body, &body) == nil for a struct body (PatchBody,
\* DetailBody): any JSON object decodes, fields it lacks stay zero.
UnmarshalStruct(b) == b.shape \in {"info", "details"}

\* the PatchBody a JSON object decodes to
AsPatchBody(b) ==
    IF b.shape = "info" THEN b ELSE InfoBody(0, "", "")

\* the DetailBody a JSON object decodes to
AsDetailBody(b) ==
    IF b.shape = "details" THEN b ELSE DetailsBody("")

(***************************************************************************)
(* aoiclient.SolutionClient: the queue calls of one task, as a log         *)
(***************************************************************************)
\* whether the task queue is out of reach at this moment: a call issued
\* while it is returns an error to its caller
VARIABLE queueDown

\* site names the place of the program that issued the call; line is the
\* number of the streamed line that caused it (0: none); ok is whether
\* the call returned nil.
Call(op, score, status, message, site, line) ==
    [op |-> op, score |-> score, status |-> status, message |-> message,
     site |-> site, line |-> line, ok |-> ~queueDown]

Patch(log, score, status, message, site, line) ==
    Append(log, Call("patch", score, status, message, site, line))

SaveDetails(log, summary, site, line) ==
    Append(log, Call("save", 0, "", summary, site, line))

Complete(log, site, line) ==
    Append(log, Call("complete", 0, "", "", site, line))

(***************************************************************************)
(* Manager.processMessage                                                  *)
(***************************************************************************)
\* the switch of processMessage on the action of a decoded message; msg
\* was the n-th line the sandbox printed
processAction(parsed, n, log) ==
    CASE parsed.Action = ActionGreet -> log
      [] parsed.Action = ActionNoop -> log
      [] parsed.Action = ActionLog -> log
      [] parsed.Action = ActionError ->
           IF UnmarshalString(parsed.Body)
           THEN Patch(log, 0, StatusInternalError, parsed.Body.text,
                      "processMessage", n)
           ELSE log
      [] parsed.Action = ActionPatch ->
           IF UnmarshalStruct(parsed.Body)
           THEN LET body == AsPatchBody(parsed.Body) IN
                Patch(log, body.score, body.status, body.text,
                      "processMessage", n)
           ELSE log
      [] parsed.Action = ActionDetail ->
           IF UnmarshalStruct(parsed.Body)
           THEN SaveDetails(log, AsDetailBody(parsed.Body).text,
                            "processMessage", n)
           ELSE log
      [] parsed.Action = ActionComplete ->
           Complete(log, "processMessage", n)
      [] parsed.Action = ActionQuit -> log
      [] OTHER -> log

\* processMessage with a decode failure reported as an internal error
\* instead of being ignored
processMessage_ReportsDecodeError(msg, n, log) ==
    LET parsed == MessageFromString(msg) IN
    IF parsed.err
    THEN Patch(log, 0, StatusInternalError, "bad line", "processMessage", n)
    ELSE processAction(parsed, n, log)

\* msg is the n-th line the sandbox printed; the result is the call log
\* after the line was handled.
processMessage(msg, n, log) ==
    LET parsed == MessageFromString(msg) IN
    IF parsed.err
    THEN log
    ELSE processAction(parsed, n, log)

(***************************************************************************)
(* adapters: the pytest report and CalculateScore                          *)
(***************************************************************************)
PytestReportSummary(passed, failed, skipped, xfailed, total) ==
    [Passed |-> passed, Failed |-> failed, Skipped |-> skipped,
     XFailed |-> xfailed, Total |-> total]

\* The report file of the output directory: absent, present and not
\* parseable, or present with a summary.
ReportFile(exists, parses, summary) ==
    [exists |-> exists, parses |-> parses, Summary |-> summary]

NoSummary == PytestReportSummary(0, 0, 0, 0, 0)
AbsentReport == ReportFile(FALSE, FALSE, NoSummary)
BrokenReport == ReportFile(TRUE, FALSE, NoSummary)

\* the summaries of the report files a sandbox leaves behind
ReportSummaries ==
    { PytestReportSummary(2, 0, 0, 0, 2),
      PytestReportSummary(1, 1, 0, 0, 2) }

ReportFiles ==
    { AbsentReport, BrokenReport }
    \cup { ReportFile(TRUE, TRUE, s) : s \in ReportSummaries }

\* the score of the version of CalculateScore that has no xfailed count
CalculateScoreFraction_WithoutXFailed(summary) ==
    IF summary.Total > 0
    THEN [num |-> summary.Passed * 100, den |-> summary.Total]
    ELSE [num |-> 0, den |-> 1]

\* The score of CalculateScore: float64(passed) / float64(total) * 100 for
\* total > 0, else 0, as the fraction num / den it stands for (the
\* rounding of float64 is left out).
CalculateScoreFraction(summary) ==
    IF summary.Total > 0
    THEN [num |-> (summary.Passed + summary.XFailed) * 100,
          den |-> summary.Total]
    ELSE [num |-> 0, den |-> 1]

\* the status decided from the passed count alone
CalculateScoreStatus_IgnoresFailed(summary) ==
    IF summary.Passed + summary.XFailed = summary.Total
    THEN StatusAccepted
    ELSE StatusWrongAnswer

\* the status of CalculateScore
CalculateScoreStatus(summary) ==
    IF summary.Failed = 0 /\ summary.Passed + summary.XFailed = summary.Total
    THEN StatusAccepted
    ELSE StatusWrongAnswer

\* CalculateScore (the version with xfailed): score, status and message.
\* ScoreNum / ScoreDen is the score; Score is its integer part, which is
\* the score itself for the summaries of ReportSummaries.
CalculateScore(report) ==
    LET summary == report.Summary
        total == summary.Total
        passed == summary.Passed + summary.XFailed
        score == CalculateScoreFraction(summary)
        counts == ToString(passed) \o "/" \o ToString(total)
        status == CalculateScoreStatus(summary)
        base == IF summary.Failed = 0 /\ passed = total
                THEN "all passed " \o counts
                ELSE IF passed > 0
                     THEN "passed " \o counts \o ", failed "
                          \o ToString(summary.Failed)
                     ELSE "passed none (0/" \o ToString(total) \o ")"
        withSkipped == IF summary.Skipped > 0
                       THEN base \o ", skipped " \o ToString(summary.Skipped)
                       ELSE base
        message == IF summary.XFailed > 0
                   THEN withSkipped \o ", xfailed "
                        \o ToString(summary.XFailed)
                   ELSE withSkipped
    IN [Score |-> score.num \div score.den, ScoreNum |-> score.num,
        ScoreDen |-> score.den, Status |-> status, Message |-> message]

(***************************************************************************)
(* executor: the outcome of one sandbox run                                *)
(***************************************************************************)
ExecuteResult(exitCode, timedOut, oom) ==
    [ExitCode |-> exitCode, TimedOut |-> timedOut, OOM |-> oom]

NoResult == ExecuteResult(0, FALSE, FALSE)

\* the outcomes ExecuteWithLogs returns: TimedOut and OOM are two fields
\* the executor sets independently
ExecuteResults ==
    { ExecuteResult(c, t, o) : c \in {0, 1}, t \in BOOLEAN, o \in BOOLEAN }

(***************************************************************************)
(* Manager.run: the policy applied once ExecuteWithLogs has returned       *)
(***************************************************************************)
\* result.TimedOut: patch, details, complete, return nil
runTimedOut(log) ==
    Complete(
        SaveDetails(
            Patch(log, 0, StatusTimeLimitExceeded, "judge timed out",
                  "run:finish", 0),
            "judge timed out", "run:finish", 0),
        "run:finish", 0)

\* result.OOM: patch, details, complete, return nil
runOOM(log) ==
    Complete(
        SaveDetails(
            Patch(log, 0, StatusMemoryLimitExceeded, "memory limit exceeded",
                  "run:finish", 0),
            "memory limit exceeded", "run:finish", 0),
        "run:finish", 0)

\* whether the adapter branch reads the report file
runReadsReport(adapter, report) ==
    adapter = "lfs1" /\ report.exists

\* the adapter branch: the log after it and reportProcessed
runReport(log, adapter, report) ==
    IF adapter = "lfs1" /\ report.exists
    THEN IF ~report.parses
         THEN [log |-> Patch(log, 0, StatusInternalError,
                             "failed to parse report", "run:finish", 0),
               reportProcessed |-> FALSE]
         ELSE LET lfsResult == CalculateScore(report) IN
              [log |-> SaveDetails(
                           Patch(log, lfsResult.Score, lfsResult.Status,
                                 lfsResult.Message, "run:finish", 0),
                           lfsResult.Message, "run:finish", 0),
               reportProcessed |-> TRUE]
    ELSE [log |-> log, reportProcessed |-> FALSE]

\* runAbnormalExit without the test of the exit code
runAbnormalExit_AnyExitCode(log, reportProcessed, exitCode) ==
    IF ~reportProcessed
    THEN Patch(log, 0, StatusInternalError, "abnormal exit, no report",
               "run:finish", 0)
    ELSE log

\* runAbnormalExit without the test of reportProcessed
runAbnormalExit_IgnoresReport(log, reportProcessed, exitCode) ==
    IF exitCode # 0
    THEN Patch(log, 0, StatusInternalError, "abnormal exit, no report",
               "run:finish", 0)
    ELSE log

\* runAbnormalExit that only logs the exit code
runAbnormalExit_LogOnly(log, reportProcessed, exitCode) == log

\* no report processed and a non-zero exit code: the internal-error patch
runAbnormalExit(log, reportProcessed, exitCode) ==
    IF ~reportProcessed /\ exitCode # 0
    THEN Patch(log, 0, StatusInternalError, "abnormal exit, no report",
               "run:finish", 0)
    ELSE log

\* runFinish with the OOM test placed before the timeout test
runFinish_OOMFirst(log, result, adapter, report) ==
    IF result.OOM
    THEN runOOM(log)
    ELSE IF result.TimedOut
         THEN runTimedOut(log)
         ELSE LET r == runReport(log, adapter, report) IN
              Complete(
                  runAbnormalExit(r.log, r.reportProcessed, result.ExitCode),
                  "run:finish", 0)

\* runFinish without the early returns: the timeout report, then the OOM
\* report, then one complete
runFinish_NoEarlyReturn(log, result, adapter, report) ==
    LET t == IF result.TimedOut
             THEN SaveDetails(
                      Patch(log, 0, StatusTimeLimitExceeded,
                            "judge timed out", "run:finish", 0),
                      "judge timed out", "run:finish", 0)
             ELSE log
        o == IF result.OOM
             THEN SaveDetails(
                      Patch(t, 0, StatusMemoryLimitExceeded,
                            "memory limit exceeded", "run:finish", 0),
                      "memory limit exceeded", "run:finish", 0)
             ELSE t
    IN Complete(o, "run:finish", 0)

\* Manager.run from the return of ExecuteWithLogs to its own return
runFinish(log, result, adapter, report) ==
    IF result.TimedOut
    THEN runTimedOut(log)
    ELSE IF result.OOM
         THEN runOOM(log)
         ELSE LET r == runReport(log, adapter, report) IN
              Complete(
                  runAbnormalExit(r.log, r.reportProcessed, result.ExitCode),
                  "run:finish", 0)

(***************************************************************************)
(* Manager.failSoln                                                        *)
(***************************************************************************)
\* failSoln that completes before it patches
failSoln_CompleteFirst(log, reason) ==
    SaveDetails(
        Patch(Complete(log, "failSoln", 0),
              0, StatusError, reason, "failSoln", 0),
        reason, "failSoln", 0)

failSoln(log, reason) ==
    Complete(
        SaveDetails(
            Patch(log, 0, StatusError, reason, "failSoln", 0),
            reason, "failSoln", 0),
        "failSoln", 0)

(***************************************************************************)
(* Manager.buildExecuteConfig                                              *)
(***************************************************************************)
\* "nil" stands for a ManagerConfig whose SharedVolumePath pointer was
\* never set (the bootstrap sets Endpoint, RunnerID and RunnerKey only).
SharedVolumePaths == { "nil", "", "/shared" }

\* the judge.config of a task: whether it is valid JSON for RunningConfig
\* and its docker_cmd
RunningConfig(parses, dockerCmd) ==
    [parses |-> parses, DockerCmd |-> dockerCmd]

\* "error": docker_cmd is missing; "panic": nil pointer dereference of
\* SharedVolumePath; "ok": a configuration is returned.
buildExecuteConfig(rc, sharedVolumePath) ==
    IF Len(rc.DockerCmd) = 0
    THEN "error"
    ELSE IF sharedVolumePath = "nil"
         THEN "panic"
         ELSE "ok"

(***************************************************************************)
(* State                                                                   *)
(***************************************************************************)
VARIABLES
    pc,          \* where Manager.Start is: "poll", "run", "streaming",
                 \* "runFailed" (run has returned an error) or "crashed"
    conf,        \* the ManagerConfig: its SharedVolumePath
    soln,        \* the SolutionPoll handed to Manager.run
    sent,        \* the lines the sandbox has printed, in order
    handled,     \* how many of them the line callback has handled
    calls,       \* the queue calls issued for soln, in order
    result,      \* what ExecuteWithLogs returned
    report,      \* the report file in the output directory at that time
    runErr,      \* the error Manager.run returned, "" for nil
    outputDir,   \* the temp output directory: "none", "created", "removed"
    arg,         \* the input of the function under study, <<>> for none
    ret          \* what the function returned for arg, <<>> before the call

vars == <<pc, conf, soln, sent, handled, calls, result, report, runErr,
          outputDir, queueDown, arg, ret>>

SolutionPoll(solutionId, taskId, adapter, config) ==
    [SolutionId |-> solutionId, TaskId |-> taskId, Adapter |-> adapter,
     Config |-> config]

NoSoln == SolutionPoll("", "", "", RunningConfig(FALSE, <<>>))

\* the judge configurations the queue hands out
JudgeConfigs ==
    { RunningConfig(FALSE, <<>>),
      RunningConfig(TRUE, <<>>),
      RunningConfig(TRUE, <<"/judge.sh">>) }

\* poll responses that carry a task
TaskResponses ==
    { SolutionPoll("s1", "t1", a, c) : a \in {"", "lfs1"}, c \in JudgeConfigs }

\* poll responses without a solution id or without a task id
EmptyResponses ==
    { SolutionPoll("", "", "", RunningConfig(FALSE, <<>>)),
      SolutionPoll("s1", "", "", RunningConfig(FALSE, <<>>)),
      SolutionPoll("", "t1", "", RunningConfig(FALSE, <<>>)) }

Init ==
    /\ pc = "poll"
    /\ conf \in SharedVolumePaths
    /\ soln = NoSoln
    /\ sent = <<>>
    /\ handled = 0
    /\ calls = <<>>
    /\ result = NoResult
    /\ report = AbsentReport
    /\ runErr = ""
    /\ outputDir = "none"
    /\ queueDown = FALSE
    /\ arg = <<>>
    /\ ret = <<>>

(***************************************************************************)
(* Manager.Start: the poll                                                 *)
(***************************************************************************)
\* m.aoi.Poll returns an error: continue
PollFail ==
    /\ pc = "poll"
    /\ UNCHANGED vars

\* the response has no solution id or no task id: continue
PollEmpty ==
    /\ pc = "poll"
    /\ \E r \in EmptyResponses : r.SolutionId = "" \/ r.TaskId = ""
    /\ UNCHANGED vars

\* Start handing the task to a goroutine (go m.run(soln)) and going on to
\* its next iteration: the poll is issued while a run is in progress
PollTask_WhileRunning ==
    /\ pc \in {"poll", "run", "streaming", "runFailed"}
    /\ \E r \in TaskResponses :
          /\ ~(r.SolutionId = "" \/ r.TaskId = "")
          /\ soln' = r
    /\ pc' = "run"
    /\ sent' = <<>>
    /\ handled' = 0
    /\ calls' = <<>>
    /\ result' = NoResult
    /\ report' = AbsentReport
    /\ runErr' = ""
    /\ outputDir' = "none"
    /\ UNCHANGED <<conf, queueDown, arg, ret>>

\* the response carries a task: m.run(soln) is called
PollTask ==
    /\ pc = "poll"
    /\ \E r \in TaskResponses :
          /\ ~(r.SolutionId = "" \/ r.TaskId = "")
          /\ soln' = r
    /\ pc' = "run"
    /\ sent' = <<>>
    /\ handled' = 0
    /\ calls' = <<>>
    /\ result' = NoResult
    /\ report' = AbsentReport
    /\ runErr' = ""
    /\ outputDir' = "none"
    /\ UNCHANGED <<conf, queueDown, arg, ret>>

(***************************************************************************)
(* Manager.run up to the call of ExecuteWithLogs                           *)
(***************************************************************************)
\* the Running patch that follows a parsed judge config
runRunningPatch(log) ==
    Patch(log, 0, StatusRunning, "judge started", "run:start", 0)

\* json.Unmarshal of the judge config fails
runConfigError ==
    /\ pc = "run"
    /\ ~soln.Config.parses
    /\ runErr' = "failed to parse judge config"
    /\ pc' = "runFailed"
    /\ UNCHANGED <<conf, soln, sent, handled, calls, result, report,
                   outputDir, queueDown, arg, ret>>

\* os.MkdirTemp fails
runTempDirError ==
    /\ pc = "run"
    /\ soln.Config.parses
    /\ calls' = runRunningPatch(calls)
    /\ runErr' = "failed to create temp output dir"
    /\ pc' = "runFailed"
    /\ UNCHANGED <<conf, soln, sent, handled, result, report, outputDir,
                   queueDown, arg, ret>>

\* buildExecuteConfig returns an error; the deferred RemoveAll runs
runBuildError ==
    /\ pc = "run"
    /\ soln.Config.parses
    /\ buildExecuteConfig(soln.Config, conf) = "error"
    /\ calls' = runRunningPatch(calls)
    /\ outputDir' = "removed"
    /\ runErr' = "failed to build execute config: docker_cmd is required in judge config"
    /\ pc' = "runFailed"
    /\ UNCHANGED <<conf, soln, sent, handled, result, report, queueDown, arg,
                   ret>>

\* buildExecuteConfig dereferences a nil SharedVolumePath: the process dies
runPanic ==
    /\ pc = "run"
    /\ soln.Config.parses
    /\ buildExecuteConfig(soln.Config, conf) = "panic"
    /\ calls' = runRunningPatch(calls)
    /\ outputDir' = "removed"
    /\ pc' = "crashed"
    /\ UNCHANGED <<conf, soln, sent, handled, result, report, runErr,
                   queueDown, arg, ret>>

\* the sandbox is started
runExecute ==
    /\ pc = "run"
    /\ soln.Config.parses
    /\ buildExecuteConfig(soln.Config, conf) = "ok"
    /\ calls' = runRunningPatch(calls)
    /\ outputDir' = "created"
    /\ pc' = "streaming"
    /\ UNCHANGED <<conf, soln, sent, handled, result, report, runErr,
                   queueDown, arg, ret>>

(***************************************************************************)
(* ExecuteWithLogs: the sandbox prints, the callback handles, it returns   *)
(***************************************************************************)
\* the sandbox prints one more line
SandboxPrint ==
    /\ pc = "streaming"
    /\ Len(sent) < MaxLines
    /\ \E line \in SandboxLines : sent' = Append(sent, line)
    /\ UNCHANGED <<pc, conf, soln, handled, calls, result, report, runErr,
                   outputDir, queueDown, arg, ret>>

\* the line the executor delivers next: the oldest one not yet delivered
NextLine == handled + 1

\* the line callback handing the line to a goroutine of its own: the call
\* of the line may reach the queue ahead of calls issued earlier
OnLine_Detached ==
    /\ pc = "streaming"
    /\ handled < Len(sent)
    /\ calls' = processMessage(sent[NextLine], NextLine, <<>>) \o calls
    /\ handled' = NextLine
    /\ UNCHANGED <<pc, conf, soln, sent, result, report, runErr, outputDir,
                   queueDown, arg, ret>>

\* the line callback returning the error of a failed queue call: the
\* executor stops and run returns it
OnLine_ReturnsQueueError ==
    /\ pc = "streaming"
    /\ handled < Len(sent)
    /\ calls' = processMessage(sent[NextLine], NextLine, calls)
    /\ handled' = NextLine
    /\ IF queueDown /\ calls' # calls
       THEN /\ runErr' = "line callback failed"
            /\ outputDir' = "removed"
            /\ pc' = "runFailed"
       ELSE UNCHANGED <<pc, runErr, outputDir>>
    /\ UNCHANGED <<conf, soln, sent, result, report, queueDown, arg, ret>>

\* the line callback of Manager.run: processMessage, then return nil
OnLine ==
    /\ pc = "streaming"
    /\ handled < Len(sent)
    /\ calls' = processMessage(sent[NextLine], NextLine, calls)
    /\ handled' = NextLine
    /\ UNCHANGED <<pc, conf, soln, sent, result, report, runErr, outputDir,
                   queueDown, arg, ret>>

\* ExecuteError with the output directory removed by hand on the normal
\* return only: the error return leaves it behind
ExecuteError_KeepsOutputDir ==
    /\ pc = "streaming"
    /\ runErr' = "docker execution failed"
    /\ pc' = "runFailed"
    /\ UNCHANGED <<conf, soln, sent, handled, calls, result, report,
                   outputDir, queueDown, arg, ret>>

\* ExecuteWithLogs returns an error: run returns "docker execution failed"
ExecuteError ==
    /\ pc = "streaming"
    /\ runErr' = "docker execution failed"
    /\ outputDir' = "removed"
    /\ pc' = "runFailed"
    /\ UNCHANGED <<conf, soln, sent, handled, calls, result, report,
                   queueDown, arg, ret>>

\* ExecuteReturn with run returning the error of a failed terminal
\* complete, which Start then reports
ExecuteReturn_ReturnsCompleteError ==
    /\ pc = "streaming"
    /\ \E res \in ExecuteResults, rep \in ReportFiles :
          /\ res.TimedOut \/ handled = Len(sent)
          /\ result' = res
          /\ report' = rep
          /\ calls' = runFinish(calls, res, soln.Adapter, rep)
    /\ runErr' = IF queueDown THEN "failed to complete solution" ELSE ""
    /\ outputDir' = "removed"
    /\ pc' = IF queueDown THEN "runFailed" ELSE "poll"
    /\ UNCHANGED <<conf, soln, sent, handled, queueDown, arg, ret>>

\* ExecuteWithLogs returns an outcome; every printed line was delivered
\* unless the deadline aborted the read loop.  run applies its policy and
\* returns nil, and Start goes on to its next iteration.
ExecuteReturn ==
    /\ pc = "streaming"
    /\ \E res \in ExecuteResults, rep \in ReportFiles :
          /\ res.TimedOut \/ handled = Len(sent)
          /\ result' = res
          /\ report' = rep
          /\ calls' = runFinish(calls, res, soln.Adapter, rep)
    /\ runErr' = ""
    /\ outputDir' = "removed"
    /\ pc' = "poll"
    /\ UNCHANGED <<conf, soln, sent, handled, queueDown, arg, ret>>

(***************************************************************************)
(* Manager.Start: after m.run(soln) has returned an error                  *)
(***************************************************************************)
\* err != nil: failSoln, then the next iteration
StartRunFailed ==
    /\ pc = "runFailed"
    /\ calls' = failSoln(calls, "Failed to run solution: " \o runErr)
    /\ pc' = "poll"
    /\ UNCHANGED <<conf, soln, sent, handled, result, report, runErr,
                   outputDir, queueDown, arg, ret>>

Next ==
    \/ PollFail
    \/ PollEmpty
    \/ PollTask
    \/ runConfigError
    \/ runTempDirError
    \/ runBuildError
    \/ runPanic
    \/ runExecute
    \/ SandboxPrint
    \/ OnLine
    \/ ExecuteError
    \/ ExecuteReturn
    \/ StartRunFailed

Spec == Init /\ [][Next]_vars

(***************************************************************************)
(* Vocabulary of the properties                                            *)
(***************************************************************************)
\* the positions of log that hold a call of kind op
CallsOf(log, op) == { i \in DOMAIN log : log[i].op = op }

\* the largest element of a non-empty set of numbers
Max(S) == CHOOSE m \in S : \A n \in S : n <= m

\* the last patch of a log that holds one
LastPatch(log) == log[Max(CallsOf(log, "patch"))]

\* a line that is protocol traffic: a JSON envelope with a recognized
\* action and a body of that action's shape
ProtocolTraffic(line) ==
    line.json /\ line.a \in RecognizedActions /\ BodyMatches(line.a, line.b)

\* the handled lines that are protocol traffic of action a
Streamed(a) ==
    { n \in 1..handled : ProtocolTraffic(sent[n]) /\ sent[n].a = a }

\* the per-task call of Start is over: run returned nil, or it returned an
\* error and failSoln has reported it
TaskOver == pc = "poll" /\ soln # NoSoln

\* Manager.run returned nil: ExecuteWithLogs gave an outcome
RunReturnedNil == TaskOver /\ runErr = ""

\* the outcome was a plain exit: neither timeout nor OOM
PlainExit == RunReturnedNil /\ ~result.TimedOut /\ ~result.OOM

(***************************************************************************)
(* C1                                                                      *)
(***************************************************************************)
\* C1: for every polled task exactly one complete call is issued: never
\* more than one, and exactly one once the per-task call is over, also when
\* the sandbox streamed Complete messages.
C1_ExactlyOneComplete ==
    /\ Cardinality(CallsOf(calls, "complete")) <= 1
    /\ TaskOver => Cardinality(CallsOf(calls, "complete")) = 1

(***************************************************************************)
(* C2                                                                      *)
(***************************************************************************)
\* the last patch of the task is a zero score with the given status
LastPatchIs(status) ==
    /\ CallsOf(calls, "patch") # {}
    /\ LastPatch(calls).score = 0
    /\ LastPatch(calls).status = status

\* C2 as stated: an outcome with TimedOut set ends with a zero-score Time
\* Limit Exceeded patch, and an outcome with OOM set ends with a zero-score
\* Memory Limit Exceeded patch.
C2_Original ==
    RunReturnedNil =>
        /\ result.TimedOut => LastPatchIs(StatusTimeLimitExceeded)
        /\ result.OOM => LastPatchIs(StatusMemoryLimitExceeded)

\* C2 amended: an outcome with TimedOut set ends with a zero-score Time
\* Limit Exceeded patch; an outcome with OOM set and TimedOut not set ends
\* with a zero-score Memory Limit Exceeded patch; whatever was streamed
\* before and whatever report file exists.
C2_TimeoutAndOOMForceStatus ==
    RunReturnedNil =>
        /\ result.TimedOut => LastPatchIs(StatusTimeLimitExceeded)
        /\ (result.OOM /\ ~result.TimedOut)
              => LastPatchIs(StatusMemoryLimitExceeded)

\* an OOM outcome after the sandbox had patched a non-zero score, with a
\* parseable report of a declared adapter in the output directory
C2_Witness ==
    /\ RunReturnedNil
    /\ result.OOM /\ ~result.TimedOut
    /\ \E i \in CallsOf(calls, "patch") :
          calls[i].site = "processMessage" /\ calls[i].score > 0
    /\ soln.Adapter = "lfs1" /\ report.exists /\ report.parses
    /\ LastPatchIs(StatusMemoryLimitExceeded)

(***************************************************************************)
(* C3                                                                      *)
(***************************************************************************)
\* C3: when the outcome carries both TimedOut and OOM, the final status is
\* Time Limit Exceeded and run issues no Memory Limit Exceeded patch.
C3_TimeoutTakesPrecedence ==
    (RunReturnedNil /\ result.TimedOut /\ result.OOM) =>
        /\ LastPatchIs(StatusTimeLimitExceeded)
        /\ \A i \in CallsOf(calls, "patch") :
              calls[i].status # StatusMemoryLimitExceeded

\* an outcome with both flags has been reported
C3_Witness ==
    /\ RunReturnedNil
    /\ result.TimedOut /\ result.OOM
    /\ LastPatchIs(StatusTimeLimitExceeded)

(***************************************************************************)
(* C4                                                                      *)
(***************************************************************************)
\* C4: when the line callback handles a line that is not protocol traffic
\* (not JSON, an unrecognized action, or a body that does not fit the
\* action) it issues no queue call, run gets no error from it, and the
\* streaming goes on.
C4_NonProtocolLineHasNoEffect ==
    [][(pc = "streaming" /\ handled' = handled + 1
           /\ ~ProtocolTraffic(sent[handled + 1]))
         => (calls' = calls /\ runErr' = runErr /\ pc' = "streaming")]_vars

\* a line that is not protocol traffic was handled and the line after it,
\* a Patch, was then handled and patched
C4_Witness ==
    /\ handled >= 2
    /\ ~ProtocolTraffic(sent[1])
    /\ sent[1].a \in RecognizedActions
    /\ 2 \in Streamed(ActionPatch)
    /\ \A i \in DOMAIN calls : calls[i].line # 1
    /\ \E i \in DOMAIN calls : calls[i].line = 2 /\ calls[i].op = "patch"

(***************************************************************************)
(* C5                                                                      *)
(***************************************************************************)
\* the sandbox streamed a Patch and later a Complete, and no Error message
\* after its last Patch
StreamedPatchThenComplete ==
    /\ \E i \in Streamed(ActionPatch), j \in Streamed(ActionComplete) : i < j
    /\ \A e \in Streamed(ActionError) : e < Max(Streamed(ActionPatch))

\* run issued no patch of its own after the streaming, and the last patch
\* of the task carries the body of the last Patch line
NoOverride ==
    /\ \A i \in CallsOf(calls, "patch") : calls[i].site # "run:finish"
    /\ LET body == sent[Max(Streamed(ActionPatch))].b IN
       /\ LastPatch(calls).score = body.score
       /\ LastPatch(calls).status = body.status
       /\ LastPatch(calls).message = body.text

NoParseableReport ==
    ~(soln.Adapter = "lfs1" /\ report.exists /\ report.parses)

AbnormalExitOverride ==
    \E i \in CallsOf(calls, "patch") :
        /\ calls[i].site = "run:finish"
        /\ calls[i].message = "abnormal exit, no report"

\* C7: the override for a non-zero exit is applied only when the sandbox
\* sent neither a Patch nor a Complete.
C7_OverrideOnlyWithoutPatch ==
    (RunReturnedNil /\ AbnormalExitOverride)
        => (Streamed(ActionPatch) = {} /\ Streamed(ActionComplete) = {})

(***************************************************************************)
(* C8                                                                      *)
(***************************************************************************)
\* the statuses taken as terminal: the enumerated ones, the internal-error
\* status of aoiclient counting as the enumerated Error
TerminalStatuses == EnumeratedStatuses \cup { StatusInternalError }

\* every Patch the sandbox sent used an enumerated status
SandboxUsedEnumeratedStatuses ==
    \A n \in Streamed(ActionPatch) : sent[n].b.status \in EnumeratedStatuses

\* C8: whenever a complete call is issued, the status last patched before
\* it is an enumerated terminal status, provided the sandbox's own Patches
\* used enumerated statuses.
C8_CompleteWithTerminalStatus ==
    SandboxUsedEnumeratedStatuses =>
        \A i \in CallsOf(calls, "complete") :
            LET before == { j \in CallsOf(calls, "patch") : j < i } IN
            /\ before # {}
            /\ calls[Max(before)].status \in TerminalStatuses

(***************************************************************************)
(* C9                                                                      *)
(***************************************************************************)
\* the calls issued by failSoln, in order
FailureReport == SelectSeq(calls, LAMBDA c : c.site = "failSoln")

\* C9: once Start has handled an error returned by run, the failure report
\* is a patch (score 0, status Error, the error text), then a save-details,
\* then a complete, and these are the last calls of the task; run errors
\* not yet handled have no failure report.
C9_RunErrorIsReported ==
    /\ (TaskOver /\ runErr # "") =>
          /\ Len(calls) >= 3
          /\ SubSeq(calls, Len(calls) - 2, Len(calls)) = FailureReport
          /\ FailureReport =
                << Call("patch", 0, StatusError,
                        "Failed to run solution: " \o runErr, "failSoln", 0),
                   Call("save", 0, "",
                        "Failed to run solution: " \o runErr, "failSoln", 0),
                   Call("complete", 0, "", "", "failSoln", 0) >>
    /\ (pc = "runFailed") => (runErr # "" /\ FailureReport = <<>>)
    /\ (TaskOver /\ runErr = "") => FailureReport = <<>>

\* an executor failure after a streamed line caused a call has been reported
C9_Witness ==
    /\ TaskOver
    /\ runErr = "docker execution failed"
    /\ Len(calls) > 4
    /\ Len(FailureReport) = 3

(***************************************************************************)
(* C10                                                                     *)
(***************************************************************************)
\* the calls caused by streamed lines, in the order they were issued
StreamCalls == SelectSeq(calls, LAMBDA c : c.site = "processMessage")

\* the queue call that a handled line of action a causes
OpOf(a) ==
    CASE a = ActionComplete -> "complete"
      [] a = ActionDetail -> "save"
      [] OTHER -> "patch"

\* C10: the calls caused by streamed lines are issued in the order of the
\* lines: each is caused by a handled line of the matching action, line
\* numbers strictly increase along the log, so a Complete's call never
\* precedes the patch of an earlier Patch line.
C10_CallsInEmissionOrder ==
    /\ \A i \in DOMAIN StreamCalls :
          /\ StreamCalls[i].line \in 1..handled
          /\ StreamCalls[i].op = OpOf(sent[StreamCalls[i].line].a)
    /\ \A i, j \in DOMAIN StreamCalls :
          i < j => StreamCalls[i].line < StreamCalls[j].line
    /\ \A n \in Streamed(ActionPatch) \cup Streamed(ActionComplete)
                  \cup Streamed(ActionDetail) \cup Streamed(ActionError) :
          \E i \in DOMAIN StreamCalls : StreamCalls[i].line = n

\* a Patch line and then a Complete line were handled: the patch call
\* precedes the complete call
C10_Witness ==
    /\ 1 \in Streamed(ActionPatch)
    /\ 2 \in Streamed(ActionComplete)
    /\ Len(StreamCalls) = 2
    /\ StreamCalls[1].op = "patch"
    /\ StreamCalls[2].op = "complete"

(***************************************************************************)
(* C11                                                                     *)
(***************************************************************************)
\* the errors of run that come from the judge configuration
ConfigErrors ==
    { "failed to parse judge config",
      "failed to build execute config: docker_cmd is required in judge config" }

\* C11: when run has returned because the judge configuration does not
\* parse or lacks the command, the queue is untouched (no patch, no
\* save-details, no complete) and no sandbox was started.
C11_ConfigErrorLeavesQueueUntouched ==
    (pc = "runFailed" /\ runErr \in ConfigErrors) =>
        /\ calls = <<>>
        /\ sent = <<>>
        /\ result = NoResult

(***************************************************************************)
(* The task queue going out of reach and coming back while a task runs     *)
(***************************************************************************)
\* the lines of a sandbox that reports through the protocol
ReportingLines ==
    { Line(FALSE, "", NoBody),
      Line(TRUE, ActionError, StringBody("boom")),
      Line(TRUE, ActionPatch, InfoBody(85, StatusAccepted, "accepted")),
      Line(TRUE, ActionDetail, DetailsBody("sandbox details")),
      Line(TRUE, ActionComplete, NoBody) }

\* the sandbox prints one more line, a reporting one
SandboxPrintReport ==
    /\ pc = "streaming"
    /\ Len(sent) < MaxLines
    /\ \E line \in ReportingLines : sent' = Append(sent, line)
    /\ UNCHANGED <<pc, conf, soln, handled, calls, result, report, runErr,
                   outputDir, queueDown, arg, ret>>

\* between two steps of a task the queue goes out of reach or comes back
QueueFlips ==
    /\ pc \in {"run", "streaming", "runFailed"}
    /\ queueDown' = ~queueDown
    /\ UNCHANGED <<pc, conf, soln, sent, handled, calls, result, report,
                   runErr, outputDir, arg, ret>>

NextQueue ==
    \/ QueueFlips
    \/ PollFail
    \/ PollEmpty
    \/ PollTask
    \/ runConfigError
    \/ runTempDirError
    \/ runBuildError
    \/ runPanic
    \/ runExecute
    \/ SandboxPrintReport
    \/ OnLine
    \/ ExecuteError
    \/ ExecuteReturn
    \/ StartRunFailed

SpecQueue == Init /\ [][NextQueue]_vars

(***************************************************************************)
(* C12                                                                     *)
(***************************************************************************)
\* the patch and save-details calls that returned an error
FailedReports ==
    { i \in DOMAIN calls : ~calls[i].ok /\ calls[i].op \in {"patch", "save"} }

\* the errors Manager.run returns for reasons other than a queue call
RunErrors ==
    ConfigErrors \cup { "failed to create temp output dir",
                        "docker execution failed" }

\* C12: a patch or save-details call that failed never aborts the run: run
\* returns no error on its account (the line callback returned success),
\* every reporting line handled, also after the failure, has its call in
\* the log, and a run that got an outcome from the executor ends with the
\* terminal complete.
C12_FailedReportNeverAborts ==
    FailedReports # {} =>
        /\ runErr \in RunErrors \cup {""}
        /\ pc = "runFailed" => runErr \in RunErrors
        /\ \A n \in Streamed(ActionPatch) \cup Streamed(ActionDetail)
                      \cup Streamed(ActionError) \cup Streamed(ActionComplete) :
              \E i \in DOMAIN calls :
                  calls[i].site = "processMessage" /\ calls[i].line = n
        /\ RunReturnedNil =>
              /\ calls[Len(calls)].op = "complete"
              /\ calls[Len(calls)].site = "run:finish"

\* the Running patch failed, the call of the first streamed line failed,
\* the second line was still handled and its call went through, and the
\* policy patch failed: the run ended with the terminal complete
C12_Witness ==
    /\ RunReturnedNil
    /\ calls[1].site = "run:start" /\ ~calls[1].ok
    /\ 1 \in FailedReports /\ 2 \in FailedReports
    /\ calls[2].site = "processMessage" /\ calls[2].line = 1
    /\ calls[3].site = "processMessage" /\ calls[3].line = 2 /\ calls[3].ok
    /\ \E i \in FailedReports :
          calls[i].site = "run:finish" /\ calls[i].op = "patch"
    /\ calls[Len(calls)].op = "complete"

(***************************************************************************)
(* C13                                                                     *)
(***************************************************************************)
\* C13: no failure while processing a task terminates the process, also
\* when the Manager was built without a shared-volume path: Start is never
\* left by a crash.
C13_ProcessNeverTerminates == pc # "crashed"

(***************************************************************************)
(* buildExecuteConfig: the ExecuteConfig it returns                        *)
(***************************************************************************)
\* The judge.config document of a task, by its JSON keys.  A key that is
\* absent has the zero value of its type; variables tells absent (or null)
\* from an object, whose members are pairs <<key, value>> in key order.
JudgeConfigDoc(image, command, docker_cmd, timeout, memoryLimit, env, variables, mounts) ==
    [image |-> image, command |-> command, docker_cmd |-> docker_cmd,
     timeout |-> timeout, memoryLimit |-> memoryLimit, env |-> env,
     variables |-> variables, mounts |-> mounts]

\* a map[string]any: nil, or the members of a JSON object
NilVariables == [nil |-> TRUE, members |-> <<>>]
VariablesOf(members) == [nil |-> FALSE, members |-> members]

\* json.Unmarshal into RunningConfig: each field takes the key of its json
\* tag, and a key no tag names is dropped
UnmarshalRunningConfig(doc) ==
    [parses |-> TRUE,
     Image |-> doc.image,
     DockerCmd |-> doc.docker_cmd,
     Timeout |-> doc.timeout,
     MemoryLimit |-> doc.memoryLimit,
     Env |-> doc.env,
     Mounts |-> doc.mounts,
     Variables |-> doc.variables]

\* the fields of SolutionPoll that buildExecuteConfig reads
SolutionPollEnv(solutionId, taskId, userId, contestId, solutionDataUrl, solutionDataHash, problemDataUrl, problemDataHash, label, adapter) ==
    [SolutionId |-> solutionId, TaskId |-> taskId, UserId |-> userId,
     ContestId |-> contestId, SolutionDataUrl |-> solutionDataUrl,
     SolutionDataHash |-> solutionDataHash,
     ProblemDataUrl |-> problemDataUrl,
     ProblemDataHash |-> problemDataHash, Label |-> label,
     Adapter |-> adapter]

DefaultTimeout == 600
DefaultMemoryLimit == 2048

\* config.Timeout with a declared value of 0 left as it is
Timeout_NoDefault(rc) == rc.Timeout

\* config.Timeout
Timeout(rc) == IF rc.Timeout = 0 THEN DefaultTimeout ELSE rc.Timeout

\* config.MemoryLimit
MemoryLimit(rc) ==
    IF rc.MemoryLimit = 0 THEN DefaultMemoryLimit ELSE rc.MemoryLimit

\* a map with the entries of a, overwritten and extended by those of b
Overwrite(a, b) ==
    [k \in DOMAIN a \cup DOMAIN b |-> IF k \in DOMAIN b THEN b[k] ELSE a[k]]

Quote(s) == "\"" \o s \o "\""

\* json.Marshal of the members of an object, all values strings
RECURSIVE MarshalMembers(_)
MarshalMembers(members) ==
    IF members = <<>>
    THEN ""
    ELSE Quote(Head(members)[1]) \o ":" \o Quote(Head(members)[2])
         \o (IF Len(members) > 1 THEN "," ELSE "")
         \o MarshalMembers(Tail(members))

\* json.Marshal of a non-nil map[string]any
Marshal(variables) == "{" \o MarshalMembers(variables.members) \o "}"

\* the variables the orchestrator injects whatever the judge config says
InjectedEnv(task) ==
    [k \in { "SOLUTION_ID", "TASK_ID", "USER_ID", "CONTEST_ID",
             "SOLUTION_DATA_URL", "SOLUTION_DATA_HASH", "PROBLEM_DATA_URL",
             "PROBLEM_DATA_HASH", "PROBLEM_LABEL", "JUDGE_ADAPTER" } |->
        CASE k = "SOLUTION_ID" -> task.SolutionId
          [] k = "TASK_ID" -> task.TaskId
          [] k = "USER_ID" -> task.UserId
          [] k = "CONTEST_ID" -> task.ContestId
          [] k = "SOLUTION_DATA_URL" -> task.SolutionDataUrl
          [] k = "SOLUTION_DATA_HASH" -> task.SolutionDataHash
          [] k = "PROBLEM_DATA_URL" -> task.ProblemDataUrl
          [] k = "PROBLEM_DATA_HASH" -> task.ProblemDataHash
          [] k = "PROBLEM_LABEL" -> task.Label
          [] OTHER -> task.Adapter]

\* config.Env: the custom variables, then the injected ones, then
\* JUDGE_VARIABLES if the config has variables, then OUTPUT_DIR
Env(task, rc) ==
    LET custom == Overwrite(<<>>, rc.Env)
        injected == Overwrite(custom, InjectedEnv(task))
        withVariables ==
            IF ~rc.Variables.nil
            THEN Overwrite(injected,
                           [k \in {"JUDGE_VARIABLES"} |-> Marshal(rc.Variables)])
            ELSE injected
    IN  Overwrite(withVariables, [k \in {"OUTPUT_DIR"} |-> "/output"])

Mount(source, target, readOnly) ==
    [Source |-> source, Target |-> target, ReadOnly |-> readOnly]

\* config.Mounts: the output directory, the mounts of the judge config,
\* then the shared data volume and the uv cache below it
Mounts(rc, outDir, sharedVolumePath) ==
    << Mount(outDir, "/output", FALSE) >>
    \o rc.Mounts
    \o (IF sharedVolumePath # ""
        THEN << Mount(sharedVolumePath, "/data", TRUE),
                Mount(sharedVolumePath \o "/uv-cache", "/root/.cache/uv",
                      FALSE) >>
        ELSE <<>>)

\* the *executor.ExecuteConfig buildExecuteConfig returns with a nil error
ExecuteConfig(task, rc, outDir, sharedVolumePath) ==
    [Image |-> rc.Image,
     Command |-> rc.DockerCmd,
     Timeout |-> Timeout(rc),
     MemoryLimit |-> MemoryLimit(rc),
     Env |-> Env(task, rc),
     Mounts |-> Mounts(rc, outDir, sharedVolumePath)]

\* the nil *executor.ExecuteConfig that comes with an error
NoExecuteConfig ==
    [Image |-> "", Command |-> <<>>, Timeout |-> 0, MemoryLimit |-> 0,
     Env |-> <<>>, Mounts |-> <<>>]

\* what Manager.run gets for a judge config document: the outcome of
\* buildExecuteConfig and, when it is "ok", the ExecuteConfig handed to
\* ExecuteWithLogs
Built(task, doc, outDir, sharedVolumePath) ==
    LET rc == UnmarshalRunningConfig(doc)
        outcome == buildExecuteConfig(rc, sharedVolumePath)
    IN  [outcome |-> outcome,
         config |-> IF outcome = "ok"
                    THEN ExecuteConfig(task, rc, outDir, sharedVolumePath)
                    ELSE NoExecuteConfig]

(***************************************************************************)
(* buildExecuteConfig applied to the judge configs of tasks                *)
(***************************************************************************)
\* the tasks whose judge config is built
BuildTasks ==
    { SolutionPollEnv("s1", "t1", "u1", "c1", "http://aoi/s1", "hs1",
                      "http://aoi/p1", "hp1", "A", "lfs1"),
      SolutionPollEnv("s2", "t2", "u2", "c2", "http://aoi/s2", "hs2",
                      "http://aoi/p2", "hp2", "B", "") }

\* the env objects of the judge configs: none, a variable of the task's
\* own, and variables named like injected ones
CustomEnvs ==
    { <<>>,
      [k \in {"LANG"} |-> "C"],
      [k \in {"LANG", "SOLUTION_ID", "JUDGE_VARIABLES", "OUTPUT_DIR"} |->
          "custom"] }

\* the judge config documents
JudgeConfigDocs ==
    { JudgeConfigDoc(image, command, docker_cmd, timeout, memoryLimit, env,
                     variables, mounts) :
        image \in {"", "lfs1:latest"},
        command \in {<<>>, <<"/judge.sh">>},
        docker_cmd \in {<<>>, <<"/judge.sh">>},
        timeout \in {0, 30},
        memoryLimit \in {0, 512},
        env \in CustomEnvs,
        variables \in { NilVariables, VariablesOf(<<>>),
                        VariablesOf(<< <<"cases", "3">>, <<"lang", "c">> >>) },
        mounts \in { <<>>, << Mount("/opt/tools", "/tools", FALSE) >> } }

InitBuild ==
    /\ pc = "build"
    /\ conf \in SharedVolumePaths
    /\ arg \in [task : BuildTasks, doc : JudgeConfigDocs,
                outDir : {"/tmp/judge-output-1"}]
    /\ ret = <<>>
    /\ soln = NoSoln
    /\ sent = <<>>
    /\ handled = 0
    /\ calls = <<>>
    /\ result = NoResult
    /\ report = AbsentReport
    /\ runErr = ""
    /\ outputDir = "none"
    /\ queueDown = FALSE

\* json.Unmarshal of the document, then buildExecuteConfig
Build ==
    /\ pc = "build"
    /\ ret' = Built(arg.task, arg.doc, arg.outDir, conf)
    /\ pc' = "built"
    /\ UNCHANGED <<conf, soln, sent, handled, calls, result, report, runErr,
                   outputDir, queueDown, arg>>

NextBuild == Build

SpecBuild == InitBuild /\ [][NextBuild]_vars

\* buildExecuteConfig has returned an ExecuteConfig
BuiltOk == pc = "built" /\ ret.outcome = "ok"

(***************************************************************************)
(* C14                                                                     *)
(***************************************************************************)
\* the host paths of the instance-wide shared mounts: the shared data path
\* and the shared cache path below it
SharedSources == { conf, conf \o "/uv-cache" }

\* C14: every instance-wide shared mount of an ExecuteConfig, the shared
\* data path and the shared cache path alike, is read-only.
C14_SharedMountsReadOnly ==
    (BuiltOk /\ conf # "") =>
        \A i \in DOMAIN ret.config.Mounts :
            ret.config.Mounts[i].Source \in SharedSources =>
                ret.config.Mounts[i].ReadOnly

(***************************************************************************)
(* C15                                                                     *)
(***************************************************************************)
\* the document with the argv of key command under docker_cmd and back
SwapCommandKeys(doc) ==
    [doc EXCEPT !.command = doc.docker_cmd, !.docker_cmd = doc.command]

\* C15: a judge config is abandoned for its command only when neither
\* command nor docker_cmd carries a non-empty argv, and a config with its
\* argv under command gets the outcome and the ExecuteConfig of the same
\* config with that argv under docker_cmd.
C15_CommandKeyAccepted ==
    (pc = "built" /\ conf # "nil") =>
        /\ ret.outcome = "error" <=>
              (arg.doc.command = <<>> /\ arg.doc.docker_cmd = <<>>)
        /\ ret.outcome =
              Built(arg.task, SwapCommandKeys(arg.doc), arg.outDir,
                    conf).outcome

(***************************************************************************)
(* C16                                                                     *)
(***************************************************************************)
\* C16: a judge config without an image is rejected like one without a
\* command, and no ExecuteConfig with an empty image is handed to the
\* executor.
C16_ImageRequired ==
    (pc = "built" /\ conf # "nil") =>
        /\ arg.doc.image = "" => ret.outcome = "error"
        /\ ret.outcome = "ok" => ret.config.Image # ""

Carries(env, k, v) == k \in DOMAIN env /\ env[k] = v

\* C18: every ExecuteConfig carries the eleven fixed variables with the
\* task's values (JUDGE_VARIABLES also when the judge config declares no
\* variables), every custom variable of the judge config, and OUTPUT_DIR.
C18_EnvCarriesFixedVariables ==
    BuiltOk =>
        LET env == ret.config.Env
            task == arg.task
        IN  /\ Carries(env, "SOLUTION_ID", task.SolutionId)
            /\ Carries(env, "TASK_ID", task.TaskId)
            /\ Carries(env, "USER_ID", task.UserId)
            /\ Carries(env, "CONTEST_ID", task.ContestId)
            /\ Carries(env, "SOLUTION_DATA_URL", task.SolutionDataUrl)
            /\ Carries(env, "SOLUTION_DATA_HASH", task.SolutionDataHash)
            /\ Carries(env, "PROBLEM_DATA_URL", task.ProblemDataUrl)
            /\ Carries(env, "PROBLEM_DATA_HASH", task.ProblemDataHash)
            /\ Carries(env, "PROBLEM_LABEL", task.Label)
            /\ Carries(env, "JUDGE_ADAPTER", task.Adapter)
            /\ "JUDGE_VARIABLES" \in DOMAIN env
            /\ ~arg.doc.variables.nil =>
                  env["JUDGE_VARIABLES"] = Marshal(arg.doc.variables)
            /\ \A k \in DOMAIN arg.doc.env : k \in DOMAIN env
            /\ Carries(env, "OUTPUT_DIR", "/output")

(***************************************************************************)
(* CalculateScore applied to the summaries of report files                 *)
(***************************************************************************)
\* the largest count of a report summary
MaxCount == 2

\* the summaries a report file can hold: five counts the sandbox writes,
\* consistent with one another or not
SummaryInputs ==
    { PytestReportSummary(passed, failed, skipped, xfailed, total) :
        passed \in 0..MaxCount, failed \in 0..MaxCount,
        skipped \in 0..MaxCount, xfailed \in 0..MaxCount,
        total \in 0..MaxCount }

InitScore ==
    /\ pc = "score"
    /\ arg \in SummaryInputs
    /\ ret = <<>>
    /\ conf = ""
    /\ soln = NoSoln
    /\ sent = <<>>
    /\ handled = 0
    /\ calls = <<>>
    /\ result = NoResult
    /\ report = AbsentReport
    /\ runErr = ""
    /\ outputDir = "none"
    /\ queueDown = FALSE

\* CalculateScore is called with a parsed report
Score ==
    /\ pc = "score"
    /\ ret' = CalculateScore(ReportFile(TRUE, TRUE, arg))
    /\ pc' = "scored"
    /\ UNCHANGED <<conf, soln, sent, handled, calls, result, report, runErr,
                   outputDir, queueDown, arg>>

NextScore == Score

SpecScore == InitScore /\ [][NextScore]_vars

(***************************************************************************)
(* C19                                                                     *)
(***************************************************************************)
\* C19: the score CalculateScore returns is 100 * (passed + xfailed) / total
\* for total > 0 and 0 for total = 0, and no division by zero takes place.
C19_ScoreIsPassedShare ==
    pc = "scored" =>
        /\ ret.ScoreDen # 0
        /\ arg.Total > 0 =>
              ret.ScoreNum * arg.Total
                  = 100 * (arg.Passed + arg.XFailed) * ret.ScoreDen
        /\ arg.Total = 0 => ret.ScoreNum = 0

\* a report with one passed and one expectedly failed test of two was
\* scored 100
C19_Witness ==
    /\ pc = "scored"
    /\ arg.Total = 2 /\ arg.Passed = 1 /\ arg.XFailed = 1
    /\ ret.ScoreNum = 100 * ret.ScoreDen

(***************************************************************************)
(* C20                                                                     *)
(***************************************************************************)
\* C20: CalculateScore returns Accepted exactly when failed = 0 and
\* passed + xfailed = total, and Wrong Answer otherwise.
C20_AcceptedIffAllPassed ==
    pc = "scored" =>
        IF arg.Failed = 0 /\ arg.Passed + arg.XFailed = arg.Total
        THEN ret.Status = StatusAccepted
        ELSE ret.Status = StatusWrongAnswer

\* a summary whose passed count reaches the total and that has a failed
\* test was scored Wrong Answer
C20_Witness ==
    /\ pc = "scored"
    /\ arg.Failed > 0
    /\ arg.Passed + arg.XFailed = arg.Total
    /\ ret.Status = StatusWrongAnswer

(***************************************************************************)
(* C21                                                                     *)
(***************************************************************************)
\* the zero-passed message of a summary, with its skipped suffix
ZeroPassedMessage(summary) ==
    "passed none (0/" \o ToString(summary.Total) \o ")"
    \o (IF summary.Skipped > 0
        THEN ", skipped " \o ToString(summary.Skipped)
        ELSE "")

\* C21: for every report in which no test counts as passed (passed +
\* xfailed = 0), also one with total = 0, CalculateScore returns Wrong
\* Answer with the zero-passed message.
C21_ZeroPassedIsWrongAnswer ==
    (pc = "scored" /\ arg.Passed + arg.XFailed = 0) =>
        /\ ret.Status = StatusWrongAnswer
        /\ ret.Message = ZeroPassedMessage(arg)

(***************************************************************************)
(* CalculateScore: the Jobs of the details                                 *)
(***************************************************************************)
\* A test case of the report.  NodeID is the node id as the list of its
\* parts between "::", which is what strings.Split returns: never empty.
PytestTestCase(nodeID, outcome) == [NodeID |-> nodeID, Outcome |-> outcome]

\* extractTestName: the last part of the node id
extractTestName(nodeid) == nodeid[Len(nodeid)]

\* outcomeToStatus
outcomeToStatus(outcome) ==
    CASE outcome = "passed" -> StatusAccepted
      [] outcome = "failed" -> StatusWrongAnswer
      [] outcome = "skipped" -> "Skipped"
      [] outcome = "xfailed" -> StatusAccepted
      [] outcome = "xpassed" -> StatusAccepted
      [] OTHER -> StatusWrongAnswer

\* a SolutionDetailsJob, without its summary text
SolutionDetailsJob(name, score, scoreScale, status) ==
    [Name |-> name, Score |-> score, ScoreScale |-> scoreScale,
     Status |-> status]

\* the Jobs of CalculateScore (the version with xfailed): one per element
\* of report.Tests, in order
CalculateScoreJobs(tests) ==
    [i \in 1..Len(tests) |->
        SolutionDetailsJob(
            extractTestName(tests[i].NodeID),
            IF tests[i].Outcome \in {"passed", "xfailed", "xpassed"}
            THEN 100 ELSE 0,
            1,
            outcomeToStatus(tests[i].Outcome))]

(***************************************************************************)
(* CalculateScore applied to the test lists of report files                *)
(***************************************************************************)
\* the largest number of test cases of a report
MaxTests == 2

\* the test cases a report holds
TestCases ==
    { PytestTestCase(n, o) :
        n \in { <<"test_one">>, <<"tests/test_data.py", "test_two">> },
        o \in {"passed", "failed", "skipped", "xfailed", "xpassed", "error"} }

\* the lists of at most n test cases
RECURSIVE TestLists(_)
TestLists(n) ==
    IF n = 0
    THEN { <<>> }
    ELSE TestLists(n - 1)
         \cup { Append(l, t) : l \in TestLists(n - 1), t \in TestCases }

InitJobs ==
    /\ pc = "jobs"
    /\ arg \in TestLists(MaxTests)
    /\ ret = <<>>
    /\ conf = ""
    /\ soln = NoSoln
    /\ sent = <<>>
    /\ handled = 0
    /\ calls = <<>>
    /\ result = NoResult
    /\ report = AbsentReport
    /\ runErr = ""
    /\ outputDir = "none"
    /\ queueDown = FALSE

\* CalculateScore builds the Jobs of a parsed report
ScoreJobs ==
    /\ pc = "jobs"
    /\ ret' = CalculateScoreJobs(arg)
    /\ pc' = "jobsBuilt"
    /\ UNCHANGED <<conf, soln, sent, handled, calls, result, report, runErr,
                   outputDir, queueDown, arg>>

NextJobs == ScoreJobs

SpecJobs == InitJobs /\ [][NextJobs]_vars

(***************************************************************************)
(* C22                                                                     *)
(***************************************************************************)
\* C22: the Jobs hold exactly one Job per test case of the report, in the
\* report's order, exactly one aggregate Job when the report has no test
\* cases, and are never empty.
C22_OneJobPerTestOrAggregate ==
    pc = "jobsBuilt" =>
        /\ Len(ret) > 0
        /\ arg = <<>> => Len(ret) = 1
        /\ arg # <<>> =>
              /\ Len(ret) = Len(arg)
              /\ \A i \in DOMAIN arg :
                    ret[i].Name = arg[i].NodeID[Len(arg[i].NodeID)]

(***************************************************************************)
(* C23                                                                     *)
(***************************************************************************)
\* the per-task call of the task at hand has returned: its last queue call
\* is the terminal complete of run or the complete of the failure report
PerTaskCallReturned ==
    /\ calls # <<>>
    /\ calls[Len(calls)].op = "complete"
    /\ calls[Len(calls)].site \in {"run:finish", "failSoln"}

\* C23: tasks are processed one at a time: a task is handed to run only
\* from the poll of Start, and when a task was polled before, only after
\* its per-task call, failure report included, has returned; so no sandbox
\* is running and no call of the earlier task is still to come.
C23_OneTaskAtATime ==
    [][ pc' = "run" =>
           /\ pc = "poll"
           /\ soln # NoSoln => PerTaskCallReturned ]_vars

\* Start is back at its poll after the failure report of a task whose
\* sandbox had printed lines
C23_Witness ==
    /\ pc = "poll"
    /\ soln # NoSoln
    /\ sent # <<>>
    /\ runErr # ""
    /\ PerTaskCallReturned
    /\ calls[Len(calls)].site = "failSoln"

(***************************************************************************)
(* The Manager with the progress its code makes by itself                  *)
(***************************************************************************)
\* run goes on from its start to a return or to the call of the executor;
\* ExecuteWithLogs returns, at the latest when the deadline of its context
\* (timeout + 10 s) passes; Start reports the error of a failed run
SpecLive ==
    /\ Spec
    /\ WF_vars(runConfigError \/ runTempDirError \/ runBuildError
               \/ runPanic \/ runExecute)
    /\ WF_vars(ExecuteError \/ ExecuteReturn)
    /\ WF_vars(StartRunFailed)

(***************************************************************************)
(* C24                                                                     *)
(***************************************************************************)
\* C24: the poll loop never stops: whenever Start is not at its poll (a
\* task is being run, or its run has failed) it is eventually at its poll
\* again, and an iteration that stays at the poll (failed or empty poll)
\* causes no queue call and no sandbox run.
C24_PollLoopNeverStops ==
    /\ [][ (pc = "poll" /\ pc' = "poll") =>
              UNCHANGED <<calls, sent, handled, result, outputDir>> ]_vars
    /\ (pc # "poll") ~> (pc = "poll")

(***************************************************************************)
(* C25                                                                     *)
(***************************************************************************)
\* the outcome is a plain exit of a task that declares lfs1 and left a
\* parseable report
AdapterScored ==
    PlainExit /\ soln.Adapter = "lfs1" /\ report.exists /\ report.parses

\* C25: on a plain exit with the lfs1 adapter declared and a parseable
\* report, whatever the exit code and whatever the sandbox streamed, the
\* last patch and the last save-details are the adapter's (score, status
\* and message computed from the report), and only the terminal complete
\* follows them: no internal-error patch.
C25_AdapterResultIsFinal ==
    AdapterScored =>
        LET lfsResult == CalculateScore(report)
            n == Len(calls)
        IN  /\ n >= 3
            /\ calls[n - 2] = Call("patch", lfsResult.Score, lfsResult.Status,
                                   lfsResult.Message, "run:finish", 0)
            /\ calls[n - 1] = Call("save", 0, "", lfsResult.Message,
                                   "run:finish", 0)
            /\ calls[n] = Call("complete", 0, "", "", "run:finish", 0)

\* the sandbox streamed a Patch and a Detail, exited with a non-zero code
\* and left a parseable report: the adapter's result stands
C25_Witness ==
    /\ AdapterScored
    /\ result.ExitCode # 0
    /\ Streamed(ActionPatch) # {}
    /\ Streamed(ActionDetail) # {}
    /\ LastPatch(calls).status = CalculateScore(report).Status
    /\ LastPatch(calls).site = "run:finish"

(***************************************************************************)
(* C26                                                                     *)
(***************************************************************************)
\* the terminal complete calls of run that returned an error
FailedTerminalCompletes ==
    { i \in DOMAIN calls :
        /\ calls[i].op = "complete"
        /\ calls[i].site = "run:finish"
        /\ ~calls[i].ok }

\* C26: when the terminal complete of run has failed, run has returned nil
\* all the same: Start is back at its poll without a failure report, and
\* the failed complete is the last call of the task, so no patch
\* overwrites the Solution Info and no second complete is attempted.
C26_FailedCompleteOnlyLogged ==
    FailedTerminalCompletes # {} =>
        /\ pc = "poll"
        /\ runErr = ""
        /\ FailureReport = <<>>
        /\ FailedTerminalCompletes = { Len(calls) }
        /\ \A i \in CallsOf(calls, "complete") :
              calls[i].site = "run:finish" => i = Len(calls)

\* the queue was in reach for the Running patch and out of reach for the
\* terminal complete of a plain exit
C26_Witness ==
    /\ RunReturnedNil
    /\ PlainExit
    /\ calls[1].ok
    /\ Len(calls) \in FailedTerminalCompletes

(***************************************************************************)
(* C27                                                                     *)
(***************************************************************************)
\* C27: once a complete call has been issued for a task, by a streamed
\* Complete line or by the orchestrator, no patch and no save-details call
\* is issued for that task any more.
C27_NoReportAfterComplete ==
    \A i, j \in DOMAIN calls :
        (i < j /\ calls[i].op = "complete") =>
            calls[j].op \notin {"patch", "save"}

(***************************************************************************)
(* C28                                                                     *)
(***************************************************************************)
\* Manager.run has returned, with an error or without
RunReturned == soln # NoSoln /\ pc \in {"poll", "runFailed"}

\* C28: when run has returned, the output directory it created exists no
\* longer, whatever the return path: executor error, missing command,
\* timeout, OOM, adapter branch or normal completion; and it exists while
\* the sandbox is running.
C28_OutputDirRemoved ==
    /\ RunReturned => outputDir # "created"
    /\ (RunReturned /\ runErr \notin { "failed to parse judge config",
                                       "failed to create temp output dir" })
          => outputDir = "removed"
    /\ pc = "streaming" => outputDir = "created"

\* run has returned the executor's error after the directory was created
C28_Witness ==
    /\ pc = "runFailed"
    /\ runErr = "docker execution failed"
    /\ outputDir = "removed"

(***************************************************************************)
(* C29                                                                     *)
(***************************************************************************)
\* C29: a custom variable of the judge config never replaces a fixed one:
\* for every key of the config's env that is a fixed variable name, the
\* ExecuteConfig carries the orchestrator's value (the task's field,
\* "/output" for OUTPUT_DIR, the JSON of the variables for
\* JUDGE_VARIABLES), never the custom one.
C29_CustomEnvNeverReplacesFixed ==
    BuiltOk =>
        LET env == ret.config.Env
            custom == arg.doc.env
        IN  \A k \in DOMAIN custom :
                /\ k \in DOMAIN InjectedEnv(arg.task) =>
                      env[k] = InjectedEnv(arg.task)[k]
                /\ k = "OUTPUT_DIR" => env[k] = "/output"
                /\ k = "JUDGE_VARIABLES" =>
                      IF arg.doc.variables.nil
                      THEN env[k] # custom[k]
                      ELSE env[k] = Marshal(arg.doc.variables)

(***************************************************************************)
(* C30                                                                     *)
(***************************************************************************)
\* C30: for every report summary, consistent or not, the score of
\* CalculateScore lies between 0 and 100, and status Accepted comes only
\* with score 100.
C30_ScoreInRange ==
    pc = "scored" =>
        /\ 0 <= ret.ScoreNum
        /\ ret.ScoreNum <= 100 * ret.ScoreDen
        /\ ret.Status = StatusAccepted => ret.ScoreNum = 100 * ret.ScoreDen

(***************************************************************************)
(* generateTestSummary                                                     *)
(***************************************************************************)
\* A Go string is a sequence of runs of UTF-8 encoded characters.  A run
\* is n characters, named by c, of b bytes each; valid is FALSE for bytes
\* that are no whole character, each of them a character of its own to a
\* reader of the string.
Run(c, n, b, valid) == [c |-> c, n |-> n, b |-> b, valid |-> valid]

\* the text of n characters c of b bytes each
Repeat(c, b, n) == IF n = 0 THEN <<>> ELSE << Run(c, n, b, TRUE) >>

\* len(s): the number of bytes
RECURSIVE len(_)
len(s) == IF s = <<>> THEN 0 ELSE Head(s).n * Head(s).b + len(Tail(s))

\* the first k bytes of a run of more than k bytes: the characters that
\* fit, then the first bytes of the character the cut goes through
SliceRun(r, k) ==
    Repeat(r.c, r.b, k \div r.b)
    \o (IF k % r.b = 0 THEN <<>> ELSE << Run(r.c, k % r.b, 1, FALSE) >>)

\* s[:k] for k <= len(s): the first k bytes
RECURSIVE Slice(_, _)
Slice(s, k) ==
    IF k = 0 \/ s = <<>>
    THEN <<>>
    ELSE IF Head(s).n * Head(s).b <= k
         THEN << Head(s) >> \o Slice(Tail(s), k - Head(s).n * Head(s).b)
         ELSE SliceRun(Head(s), k)

\* the string constants of generateTestSummary
TextPassed == << Run("U+901A U+8FC7", 2, 3, TRUE) >>
TextXFailed == << Run("U+9884 U+671F U+5931 U+8D25", 4, 3, TRUE) >>
TextXPassed ==
    << Run("U+9884 U+671F U+5931 U+8D25 U+4F46 U+901A U+8FC7", 7, 3, TRUE) >>
TextSkipped == << Run("U+8DF3 U+8FC7", 2, 3, TRUE) >>
TextFailed == << Run("U+6D4B U+8BD5 U+5931 U+8D25", 4, 3, TRUE) >>
Ellipsis == << Run("...", 3, 1, TRUE) >>

\* the text of an outcome, which is ASCII
OutcomeText(outcome) == << Run(outcome, Len(outcome), 1, TRUE) >>

\* the length above which a longrepr is cut
SummaryLimit == 200

\* a PytestTestPhase: crash is the crash message, the empty text for a
\* crash without one; hasCrash is whether Crash is non-nil
PytestTestPhase(hasCrash, crash, longrepr) ==
    [hasCrash |-> hasCrash, Crash |-> crash, Longrepr |-> longrepr]

\* a test case with its call phase; hasCall is whether Call is non-nil
PytestTestCaseCall(outcome, hasCall, call) ==
    [Outcome |-> outcome, hasCall |-> hasCall, Call |-> call]

\* generateTestSummary
generateTestSummary(test) ==
    CASE test.Outcome = "passed" -> TextPassed
      [] test.Outcome = "xfailed" -> TextXFailed
      [] test.Outcome = "xpassed" -> TextXPassed
      [] test.Outcome = "skipped" -> TextSkipped
      [] test.Outcome = "failed" ->
           IF test.hasCall /\ test.Call.hasCrash /\ test.Call.Crash # <<>>
           THEN test.Call.Crash
           ELSE IF test.hasCall /\ test.Call.Longrepr # <<>>
                THEN IF len(test.Call.Longrepr) > SummaryLimit
                     THEN Slice(test.Call.Longrepr, SummaryLimit)
                          \o Ellipsis
                     ELSE test.Call.Longrepr
                ELSE TextFailed
      [] OTHER ->
           OutcomeText(test.Outcome)

(***************************************************************************)
(* generateTestSummary applied to the test cases of a report               *)
(***************************************************************************)
\* the texts of a report: empty, one character, and one character less
\* than, exactly and one character more than SummaryLimit characters, in
\* characters of one byte, of three bytes, and of both
ReportTexts(c1, c3) ==
    { Repeat(c1, 1, n) :
        n \in {0, 1, SummaryLimit - 1, SummaryLimit, SummaryLimit + 1} }
    \cup { Repeat(c3, 3, n) :
             n \in {1, SummaryLimit - 1, SummaryLimit, SummaryLimit + 1} }
    \cup { Repeat(c1, 1, SummaryLimit - 1) \o Repeat(c3, 3, n) :
             n \in {1, 2} }

\* the crash messages: none, one character, and one longer than
\* SummaryLimit
CrashMessages ==
    { <<>>, Repeat("E", 1, 1), Repeat("U+9519", 3, 1),
      Repeat("E", 1, SummaryLimit + 1) }

\* the call phases: a crash or none, with a longrepr
TestPhases ==
    { PytestTestPhase(FALSE, <<>>, longrepr) :
        longrepr \in ReportTexts("t", "U+8FF9") }
    \cup { PytestTestPhase(TRUE, crash, longrepr) :
             crash \in CrashMessages,
             longrepr \in ReportTexts("t", "U+8FF9") }

NoPhase == PytestTestPhase(FALSE, <<>>, <<>>)

\* the test cases: every outcome, with a call phase or without
SummaryTests ==
    { PytestTestCaseCall(outcome, TRUE, call) :
        outcome \in {"passed", "xfailed", "xpassed", "skipped", "failed",
                     "error"},
        call \in TestPhases }
    \cup { PytestTestCaseCall(outcome, FALSE, NoPhase) :
             outcome \in {"passed", "xfailed", "xpassed", "skipped",
                          "failed", "error"} }

InitSummary ==
    /\ pc = "summary"
    /\ arg \in SummaryTests
    /\ ret = <<>>
    /\ conf = "nil"
    /\ soln = NoSoln
    /\ sent = <<>>
    /\ handled = 0
    /\ calls = <<>>
    /\ result = NoResult
    /\ report = AbsentReport
    /\ runErr = ""
    /\ outputDir = "none"
    /\ queueDown = FALSE

\* CalculateScore sets the Summary of the Job of a test case
Summarize ==
    /\ pc = "summary"
    /\ ret' = generateTestSummary(arg)
    /\ pc' = "summarized"
    /\ UNCHANGED <<conf, soln, sent, handled, calls, result, report, runErr,
                   outputDir, queueDown, arg>>

NextSummary == Summarize

SpecSummary == InitSummary /\ [][NextSummary]_vars

(***************************************************************************)
(* C31                                                                     *)
(***************************************************************************)
\* the number of characters of a text
RECURSIVE Characters(_)
Characters(s) == IF s = <<>> THEN 0 ELSE Head(s).n + Characters(Tail(s))

\* the first k characters of a text of more than k characters
RECURSIVE First(_, _)
First(s, k) ==
    IF k = 0 \/ s = <<>>
    THEN <<>>
    ELSE IF Head(s).n <= k
         THEN << Head(s) >> \o First(Tail(s), k - Head(s).n)
         ELSE << Run(Head(s).c, k, Head(s).b, Head(s).valid) >>

\* the summary of a failed test case was taken from its raw trace
FromTrace ==
    /\ pc = "summarized"
    /\ arg.Outcome = "failed"
    /\ arg.hasCall
    /\ ~(arg.Call.hasCrash /\ arg.Call.Crash # <<>>)
    /\ arg.Call.Longrepr # <<>>

\* C31: the summary of a failed test case is its crash message when there
\* is a non-empty one, whatever its length; otherwise its raw trace, whole
\* when it has at most 200 characters, and its first 200 characters
\* followed by "..." when it has more; otherwise the fixed failure text.
\* A summary taken from the trace has at most 203 characters.
C31_FailedSummary ==
    (pc = "summarized" /\ arg.Outcome = "failed") =>
        /\ (arg.hasCall /\ arg.Call.hasCrash /\ arg.Call.Crash # <<>>) =>
              ret = arg.Call.Crash
        /\ FromTrace =>
              /\ Characters(arg.Call.Longrepr) <= SummaryLimit =>
                    ret = arg.Call.Longrepr
              /\ Characters(arg.Call.Longrepr) > SummaryLimit =>
                    ret = First(arg.Call.Longrepr, SummaryLimit)
                          \o Ellipsis
              /\ Characters(ret) <= SummaryLimit + 3
        /\ (~FromTrace
            /\ ~(arg.hasCall /\ arg.Call.hasCrash /\ arg.Call.Crash # <<>>)) =>
              ret = TextFailed

====
